---- MODULE Spec2Model ----
(***************************************************************************)
(* Model of the automata library: the recursive-descent regex parser       *)
(* (automata/parser.py), the AST attributes (automata/tree.py), the        *)
(* generic NFA/DFA handles and the four constructions (automata/impl.py)   *)
(* and the match_re convenience function (automata/automata.py).           *)
(***************************************************************************)
EXTENDS Integers, Sequences, FiniteSets, TLC

VARIABLES
    _tokens,        \* Parser._tokens: the input, a sequence of characters
    _pos,           \* Parser._pos: the 0-based cursor
    _symbol_count,  \* Parser._symbol_count: the next symbol index
    _paren_count,   \* Parser._paren_count: the open-paren counter
    _parsed,        \* Parser._parsed: the cached node, or NoNode
    ret,            \* outcome of the latest parse() call
    calls,          \* number of parse() calls made on the instance
    word,           \* the word handed to accepts
    k,              \* number of ENGINES entries the harness has run
    automata,       \* the engine handle built last
    verdict,        \* accepts(word) of each engine run so far
    counted,        \* all_states() of each engine run so far
    result,         \* outcome of match_re
    tree,           \* a Node built directly from the four constructors
    reversed,       \* the nodes returned by successive reverse() calls
    followed,       \* the set returned by tree.follow(), once called
    stage,          \* where a handle under test stands: idle, built, loop, done, reversed
    explored,       \* DFA.all_states: the local set states
    pending,        \* DFA.all_states: the local set to_check
    rev             \* the NFA returned by DFA.reverse()

vars == <<_tokens, _pos, _symbol_count, _paren_count, _parsed, ret, calls,
          word, k, automata, verdict, counted, result,
          tree, reversed, followed, stage, explored, pending, rev>>

parserVars == <<_tokens, _pos, _symbol_count, _paren_count, _parsed, ret, calls>>
engineVars == <<k, automata, verdict, counted>>
treeVars == <<tree, reversed, followed>>
loopVars == <<stage, explored, pending, rev>>

----------------------------------------------------------------------------
\* Bounds of the model.

\* longest input string handed to a Parser
MaxLen == 4
\* longest pattern handed to the engines
MaxPat == 4
\* longest word handed to accepts
MaxWord == 3
\* parse() calls made on one Parser instance
MaxCalls == 2

\* the literal characters used in inputs
Letters == {"a", "b"}
\* the four reserved characters of the grammar
Reserved == {"(", ")", "|", "*"}
Chars == Letters \cup Reserved

\* the strings of length at most n over the alphabet
StringsOf(alphabet, n) == UNION {[1..m -> alphabet] : m \in 0..n}

----------------------------------------------------------------------------
\* automata/tree.py: the four node variants and their attributes.

Symbol(value, index) == [type |-> "Symbol", value |-> value, index |-> index]
Star(child) == [type |-> "Star", child |-> child]
Concat(left, right) == [type |-> "Concat", left |-> left, right |-> right]
Alt(left, right) == [type |-> "Alt", left |-> left, right |-> right]

\* Python's None where a Node is expected
NoNode == [type |-> "None"]

RECURSIVE nullable(_)
nullable(n) ==
    CASE n.type = "Symbol" -> FALSE
      [] n.type = "Star"   -> TRUE
      [] n.type = "Concat" -> nullable(n.left) /\ nullable(n.right)
      [] n.type = "Alt"    -> nullable(n.left) \/ nullable(n.right)

RECURSIVE first(_)
first(n) ==
    CASE n.type = "Symbol" -> {n.index}
      [] n.type = "Star"   -> first(n.child)
      [] n.type = "Concat" -> IF nullable(n.left)
                              THEN first(n.left) \cup first(n.right)
                              ELSE first(n.left)
      [] n.type = "Alt"    -> first(n.left) \cup first(n.right)

RECURSIVE last(_)
last(n) ==
    CASE n.type = "Symbol" -> {n.index}
      [] n.type = "Star"   -> last(n.child)
      [] n.type = "Concat" -> IF nullable(n.right)
                              THEN last(n.left) \cup last(n.right)
                              ELSE last(n.right)
      [] n.type = "Alt"    -> last(n.left) \cup last(n.right)

last_0(n) == IF nullable(n) THEN last(n) \cup {0} ELSE last(n)

RECURSIVE follow(_)

\* mutant of follow: Star adds no pair from its last positions to its first
follow_star_no_loop(n) ==
    CASE n.type = "Symbol" -> {}
      [] n.type = "Star"   -> follow(n.child)
      [] n.type = "Concat" -> (last(n.left) \X first(n.right))
                                \cup follow(n.left) \cup follow(n.right)
      [] n.type = "Alt"    -> follow(n.left) \cup follow(n.right)

follow(n) ==
    CASE n.type = "Symbol" -> {}
      [] n.type = "Star"   -> (last(n) \X first(n)) \cup follow(n.child)
      [] n.type = "Concat" -> (last(n.left) \X first(n.right))
                                \cup follow(n.left) \cup follow(n.right)
      [] n.type = "Alt"    -> follow(n.left) \cup follow(n.right)

\* dict union l | r: the right operand wins on a shared key
DictUnion(l, r) ==
    [i \in (DOMAIN l) \cup (DOMAIN r) |-> IF i \in DOMAIN r THEN r[i] ELSE l[i]]

RECURSIVE pos(_)
pos(n) ==
    CASE n.type = "Symbol" -> [i \in {n.index} |-> n.value]
      [] n.type = "Star"   -> pos(n.child)
      [] n.type = "Concat" -> DictUnion(pos(n.left), pos(n.right))
      [] n.type = "Alt"    -> DictUnion(pos(n.left), pos(n.right))

RECURSIVE reverse(_)

\* mutant of reverse: Concat swaps its operands but leaves the left one unmirrored
reverse_left_unmirrored(n) ==
    CASE n.type = "Symbol" -> n
      [] n.type = "Star"   -> Star(reverse(n.child))
      [] n.type = "Concat" -> Concat(reverse(n.right), n.left)
      [] n.type = "Alt"    -> Alt(reverse(n.right), reverse(n.left))

reverse(n) ==
    CASE n.type = "Symbol" -> n
      [] n.type = "Star"   -> Star(reverse(n.child))
      [] n.type = "Concat" -> Concat(reverse(n.right), reverse(n.left))
      [] n.type = "Alt"    -> Alt(reverse(n.right), reverse(n.left))

----------------------------------------------------------------------------
\* automata/parser.py: the recursive-descent parser.  Each _parse_* method is
\* an operator from the token list and the parser's mutable fields to the
\* fields it leaves behind plus either the node it returns or the SyntaxError
\* it raises (the fields keep whatever was assigned before the raise).

\* Python's None as the value of _next()
None == "None"

\* the parser's mutable fields
Fields(p, sc, pc) == [_pos |-> p, _symbol_count |-> sc, _paren_count |-> pc]

NoError == [msg |-> "", expected |-> "", index |-> 0, found |-> ""]

\* ERR_MSG.format(expected, index, found)
ERR_MSG(expected, index, found) ==
    [msg |-> "expected", expected |-> expected, index |-> index, found |-> found]

\* f"unexpected close paren at index: {index}"
CloseParenMsg(index) ==
    [msg |-> "unexpected close paren", expected |-> "", index |-> index, found |-> ""]

Return(st, n) == [st |-> st, ok |-> TRUE, node |-> n, err |-> NoError]
Raise(st, e) == [st |-> st, ok |-> FALSE, node |-> NoNode, err |-> e]

_inc(st) == [st EXCEPT !._pos = @ + 1]

_next(t, st) == IF st._pos >= Len(t) THEN None ELSE t[st._pos + 1]

\* mutant of _symbol_index: the counter is read but never advanced
_symbol_index_no_advance(st) == [index |-> st._symbol_count, st |-> st]

\* Parser._symbol_index: hand out the counter's value and advance it
_symbol_index(st) ==
    [index |-> st._symbol_count, st |-> [st EXCEPT !._symbol_count = @ + 1]]

RECURSIVE _parse_atom(_, _)
RECURSIVE _parse_star(_, _)
RECURSIVE _parse_concat(_, _)
RECURSIVE _parse_alt(_, _)

\* _parse_atom after "(" <alt>: the closing parenthesis
atom_close(t, alt) ==
    IF ~alt.ok THEN alt
    ELSE IF _next(t, alt.st) # ")"
    THEN Raise(alt.st, ERR_MSG("')'", alt.st._pos, _next(t, alt.st)))
    ELSE Return(_inc([alt.st EXCEPT !._paren_count = @ - 1]), alt.node)

\* _parse_atom, <char>: Symbol(char, self._symbol_index())
atom_symbol(char, si) == Return(si.st, Symbol(char, si.index))

\* _parse_atom once char is read and the cursor advanced
atom_char(t, char, s1) ==
    IF char = "("
    THEN atom_close(t, _parse_alt(t, [s1 EXCEPT !._paren_count = @ + 1]))
    ELSE IF char \in {")", "|", "*"}
    THEN Raise(s1, ERR_MSG("symbol", s1._pos, "'" \o char \o "'"))
    ELSE IF char = None
    THEN Raise(s1, ERR_MSG("symbol", s1._pos, "empty string"))
    ELSE atom_symbol(char, _symbol_index(s1))

_parse_atom(t, st) == atom_char(t, _next(t, st), _inc(st))

\* _parse_star once the atom is parsed
star_rest(t, atom) ==
    IF ~atom.ok THEN atom
    ELSE IF _next(t, atom.st) = "*"
    THEN Return(_inc(atom.st), Star(atom.node))
    ELSE atom

_parse_star(t, st) == star_rest(t, _parse_atom(t, st))

\* mutant of concat_join: the new item joins the first item of the rest, so
\* concatenation groups to the left
concat_join_left(star, rest) ==
    IF ~rest.ok THEN rest
    ELSE IF rest.node.type = "Concat"
    THEN Return(rest.st, Concat(Concat(star.node, rest.node.left), rest.node.right))
    ELSE Return(rest.st, Concat(star.node, rest.node))

\* Concat(star, self._parse_concat())
concat_join(star, rest) ==
    IF ~rest.ok THEN rest ELSE Return(rest.st, Concat(star.node, rest.node))

\* _parse_concat once the star is parsed
concat_rest(t, star) ==
    IF ~star.ok THEN star
    ELSE IF _next(t, star.st) \notin {"|", ")", None}
    THEN concat_join(star, _parse_concat(t, star.st))
    ELSE star

_parse_concat(t, st) == concat_rest(t, _parse_star(t, st))

\* Alt(concat, self._parse_alt())
alt_join(concat, rest) ==
    IF ~rest.ok THEN rest ELSE Return(rest.st, Alt(concat.node, rest.node))

\* mutant of alt_rest: a ")" met with no group open is not reported
alt_rest_no_close_check(t, concat) ==
    IF ~concat.ok THEN concat
    ELSE IF _next(t, concat.st) = "|"
    THEN alt_join(concat, _parse_alt(t, _inc(concat.st)))
    ELSE concat

\* _parse_alt once the concat is parsed
alt_rest(t, concat) ==
    IF ~concat.ok THEN concat
    ELSE IF _next(t, concat.st) = ")" /\ concat.st._paren_count = 0
    THEN Raise(concat.st, CloseParenMsg(concat.st._pos))
    ELSE IF _next(t, concat.st) = "|"
    THEN alt_join(concat, _parse_alt(t, _inc(concat.st)))
    ELSE concat

_parse_alt(t, st) == alt_rest(t, _parse_concat(t, st))

\* outcome of a parse() call as the caller sees it
NoCall == [kind |-> "none", node |-> NoNode, err |-> NoError]
Returned(n) == [kind |-> "node", node |-> n, err |-> NoError]
Raised(e) == [kind |-> "error", node |-> NoNode, err |-> e]

\* Parser.__init__
ParserInit(string) ==
    /\ _tokens = string
    /\ _pos = 0
    /\ _symbol_count = 1
    /\ _paren_count = 0
    /\ _parsed = NoNode
    /\ ret = NoCall
    /\ calls = 0

\* self._parsed = self._parse_alt(): the fields the scan leaves behind and
\* what the caller gets
Scanned(r) ==
    /\ _pos' = r.st._pos
    /\ _symbol_count' = r.st._symbol_count
    /\ _paren_count' = r.st._paren_count
    /\ _parsed' = IF r.ok THEN r.node ELSE _parsed
    /\ ret' = IF r.ok THEN Returned(r.node) ELSE Raised(r.err)

\* mutant of parse: every call scans again, cached node or not
parse_rescan ==
    /\ calls < MaxCalls
    /\ calls' = calls + 1
    /\ _tokens' = _tokens
    /\ Scanned(_parse_alt(_tokens, Fields(_pos, _symbol_count, _paren_count)))

\* Parser.parse: scan only while nothing is cached
parse ==
    /\ calls < MaxCalls
    /\ calls' = calls + 1
    /\ _tokens' = _tokens
    /\ IF _parsed = NoNode
       THEN Scanned(_parse_alt(_tokens, Fields(_pos, _symbol_count, _paren_count)))
       ELSE /\ ret' = Returned(_parsed)
            /\ UNCHANGED <<_pos, _symbol_count, _paren_count, _parsed>>

----------------------------------------------------------------------------
\* automata/impl.py: FromNode, the attribute bundle every construction reads.

FromNode(node) ==
    [pos |-> pos(node), first |-> first(node),
     last_0 |-> last_0(node), follow |-> follow(node)]

\* FromNode.symbols: the alphabet, one entry per position
symbols(self) == {self.pos[i] : i \in DOMAIN self.pos}

follow_i(self, idx) ==
    IF idx = 0 THEN self.first
    ELSE {pr[2] : pr \in {q \in self.follow : q[1] = idx}}

follow_set(self, s) == UNION {follow_i(self, idx) : idx \in s}

select(self, s, symbol) == {i \in s : self.pos[i] = symbol}

\* FollowState(follow, final); len() and iter() go to the follow set
FollowState(fol, final) == [follow |-> fol, final |-> final]

\* FollowAutomata.follow_state
follow_state(self, idx) == FollowState(follow_i(self, idx), idx \in self.last_0)

\* mutant of set_finality: finality taken after the follow closure
set_finality_after_closure(self, s) == \E i \in follow_set(self, s) : i \in self.last_0

\* MarkBeforeAutomata.set_finality
set_finality(self, s) == \E i \in s : i \in self.last_0

\* Optional[set]: the states argument of NFA and DFA
NoStates == [some |-> FALSE, val |-> {}]
Some(set) == [some |-> TRUE, val |-> set]

\* An NFA or DFA object is a record naming the bound methods it was built
\* from (kind, src), its symbols, its optional known states and, for the NFA
\* DFA.reverse() builds, the all_states() of the DFA that its closures cache.
\* cls(node): FromNode.__init__ under the class that names the methods
construct(cls, node) == [kind |-> cls, src |-> FromNode(node)]
PositionAutomata(node) == construct("Position", node)
McNaughtonYamadaAutomata(node) == construct("McNaughtonYamada", node)
FollowAutomata(node) == construct("Follow", node)
MarkBeforeAutomata(node) == construct("MarkBefore", node)

\* PositionAutomata.states / FollowAutomata.states / FromNode.states
states(eng) ==
    CASE eng.kind = "Position" -> Some(DOMAIN eng.src.pos)
      [] eng.kind = "Follow" ->
            Some({follow_state(eng.src, i) : i \in {0} \cup DOMAIN eng.src.pos})
      [] OTHER -> NoStates

\* FromNodeNFA.nfa
nfa(eng) ==
    [shape |-> "NFA", kind |-> eng.kind, src |-> eng.src,
     symbols |-> symbols(eng.src), states |-> states(eng)]

\* FromNodeDFA.dfa
dfa(eng) ==
    [shape |-> "DFA", kind |-> eng.kind, src |-> eng.src,
     symbols |-> symbols(eng.src), states |-> states(eng)]

\* NFA.subset_determinise
subset_determinise(N) ==
    [shape |-> "DFA", kind |-> "Determinised", src |-> N,
     symbols |-> N.symbols, states |-> NoStates]

\* len(state) as DFA.all_states and DFA.accepts take it: the size of a
\* frozenset state, the size of the follow set of a FollowState
StateLen(A, state) ==
    IF A.kind = "MarkBefore" THEN Cardinality(state.follow) ELSE Cardinality(state)

\* MarkBeforeAutomata.transition once select is taken
mark_before(self, sel) ==
    FollowState(follow_set(self, sel), set_finality(self, sel))

RECURSIVE initial(_)
RECURSIVE is_final(_, _)
RECURSIVE transition(_, _, _)

\* the initial callable of a handle
initial(A) ==
    CASE A.kind = "Position" -> {0}
      [] A.kind = "McNaughtonYamada" -> {0}
      [] A.kind = "Follow" -> {follow_state(A.src, 0)}
      [] A.kind = "MarkBefore" -> FollowState(A.src.first, 0 \in A.src.last_0)
      \* NFA.determinised_initial
      [] A.kind = "Determinised" -> initial(A.src)
      \* DFA.final_set
      [] A.kind = "Reverse" -> {s \in A.all : is_final(A.src, s)}

\* the is_final callable of a handle
is_final(A, state) ==
    CASE A.kind = "Position" -> state \in A.src.last_0
      [] A.kind = "McNaughtonYamada" -> \E s \in state : s \in A.src.last_0
      [] A.kind = "Follow" -> state.final
      [] A.kind = "MarkBefore" -> state.final
      \* NFA.determinised_is_final
      [] A.kind = "Determinised" -> \E s \in state : is_final(A.src, s)
      \* DFA.reverse_is_final
      [] A.kind = "Reverse" -> state = initial(A.src)

\* the transition callable of a handle
transition(A, state, symbol) ==
    CASE A.kind = "Position" -> select(A.src, follow_i(A.src, state), symbol)
      [] A.kind = "McNaughtonYamada" -> select(A.src, follow_set(A.src, state), symbol)
      [] A.kind = "Follow" ->
            {follow_state(A.src, j) : j \in select(A.src, state.follow, symbol)}
      [] A.kind = "MarkBefore" ->
            mark_before(A.src, select(A.src, state.follow, symbol))
      \* NFA.determinised_transition
      [] A.kind = "Determinised" ->
            UNION {transition(A.src, s, symbol) : s \in state}
      \* DFA.reverse_transition
      [] A.kind = "Reverse" ->
            {s \in A.all : transition(A.src, s, symbol) = state}

\* mutant of DFA_new_states: an empty state is dropped even when it is final
DFA_new_states_no_final_escape(D, found, to_check) ==
    {new \in {transition(D, s, a) : s \in to_check, a \in D.symbols} :
        new \notin found /\ StateLen(D, new) # 0}

\* mutant of DFA_new_states: the empty state is kept like any other
DFA_new_states_keep_dead(D, found, to_check) ==
    {new \in {transition(D, s, a) : s \in to_check, a \in D.symbols} : new \notin found}

\* the for loop of DFA.all_states: new_states of one round
DFA_new_states(D, found, to_check) ==
    {new \in {transition(D, s, a) : s \in to_check, a \in D.symbols} :
        /\ new \notin found
        /\ (StateLen(D, new) # 0 \/ is_final(D, new))}

\* the while loop of DFA.all_states
RECURSIVE DFAExplore(_, _, _)
\* states |= new_states; to_check = new_states
DFARound(D, found, new_states) == DFAExplore(D, found \cup new_states, new_states)
DFAExplore(D, found, to_check) ==
    IF to_check = {} THEN found
    ELSE DFARound(D, found, DFA_new_states(D, found, to_check))

\* mutant of DFA_all_states: the search starts from the initial state but
\* the set of states found starts empty
DFA_all_states_drop_initial(D) ==
    IF D.states.some THEN D.states.val
    ELSE DFAExplore(D, {}, {initial(D)})

\* DFA.all_states
DFA_all_states(D) ==
    IF D.states.some THEN D.states.val
    ELSE DFAExplore(D, {initial(D)}, {initial(D)})

\* the for loop of NFA.all_states: new_states of one round
NFA_new_states(N, found, to_check) ==
    {new \in UNION {transition(N, s, a) : s \in to_check, a \in N.symbols} :
        new \notin found}

\* the while loop of NFA.all_states
RECURSIVE NFAExplore(_, _, _)
\* states |= new_states; to_check = new_states
NFARound(N, found, new_states) == NFAExplore(N, found \cup new_states, new_states)
NFAExplore(N, found, to_check) ==
    IF to_check = {} THEN found
    ELSE NFARound(N, found, NFA_new_states(N, found, to_check))

\* mutant of NFA_all_states: the known states are ignored and the search runs
NFA_all_states_explore(N) == NFAExplore(N, initial(N), initial(N))

\* NFA.all_states
NFA_all_states(N) ==
    IF N.states.some THEN N.states.val
    ELSE NFAExplore(N, initial(N), initial(N))

\* mutant of DFA_reverse: the scan of the DFA's states skips the empty ones
DFA_reverse_nonempty_only(D) ==
    [shape |-> "NFA", kind |-> "Reverse", src |-> D,
     all |-> {s \in DFA_all_states(D) : StateLen(D, s) # 0},
     symbols |-> D.symbols, states |-> D.states]

\* DFA.reverse
DFA_reverse(D) ==
    [shape |-> "NFA", kind |-> "Reverse", src |-> D, all |-> DFA_all_states(D),
     symbols |-> D.symbols, states |-> D.states]

\* the for loop of NFA.accepts over the rest of the word, then the verdict
RECURSIVE NFARun(_, _, _)
NFARun(N, current, w) ==
    IF w = <<>> THEN \E s \in current : is_final(N, s)
    ELSE IF Cardinality(current) = 0 THEN FALSE
    ELSE NFARun(N, UNION {transition(N, s, Head(w)) : s \in current}, Tail(w))

\* NFA.accepts
NFA_accepts(N, w) == NFARun(N, initial(N), w)

\* the for loop of DFA.accepts over the rest of the word, then the verdict
RECURSIVE DFARun(_, _, _)
DFARun(D, state, w) ==
    IF w = <<>> THEN is_final(D, state)
    ELSE IF StateLen(D, state) = 0 THEN FALSE
    ELSE DFARun(D, transition(D, state, Head(w)), Tail(w))

\* DFA.accepts
DFA_accepts(D, w) == DFARun(D, initial(D), w)

\* Automata.accepts / Automata.all_states on either shape
accepts(A, w) == IF A.shape = "NFA" THEN NFA_accepts(A, w) ELSE DFA_accepts(A, w)
all_states(A) == IF A.shape = "NFA" THEN NFA_all_states(A) ELSE DFA_all_states(A)

\* Automata.count_states
count_states(A) == Cardinality(all_states(A))

\* mutant of NFA_minimize: one determinisation of the node, no reversal passes
NFA_minimize_determinise_only(cls, node) ==
    subset_determinise(nfa(construct(cls, node)))

\* mutant of DFA_minimize: the variant's own DFA, no reversal passes
DFA_minimize_direct(cls, node) == dfa(construct(cls, node))

\* FromNodeNFA.minimize
NFA_minimize(cls, node) ==
    subset_determinise(DFA_reverse(subset_determinise(nfa(construct(cls, reverse(node))))))

\* FromNodeDFA.minimize
DFA_minimize(cls, node) ==
    subset_determinise(DFA_reverse(dfa(construct(cls, reverse(node)))))

----------------------------------------------------------------------------
\* The grammar of the Parser docstring, as derivability of a token string:
\*   <alt>    ::= <concat> | <concat> "|" <alt>
\*   <concat> ::= <star>   | <star> <concat>
\*   <star>   ::= <atom>   | <atom> "*"
\*   <atom>   ::= <char>   | "(" <alt> ")"

RECURSIVE IsAtom(_)
RECURSIVE IsStar(_)
RECURSIVE IsConcat(_)
RECURSIVE IsAlt(_)

IsAtom(s) ==
    \/ Len(s) = 1 /\ s[1] \notin Reserved
    \/ Len(s) >= 3 /\ s[1] = "(" /\ s[Len(s)] = ")" /\ IsAlt(SubSeq(s, 2, Len(s) - 1))

IsStar(s) ==
    \/ IsAtom(s)
    \/ Len(s) >= 2 /\ s[Len(s)] = "*" /\ IsAtom(SubSeq(s, 1, Len(s) - 1))

IsConcat(s) ==
    \/ IsStar(s)
    \/ \E i \in 1..(Len(s) - 1) :
          IsStar(SubSeq(s, 1, i)) /\ IsConcat(SubSeq(s, i + 1, Len(s)))

IsAlt(s) ==
    \/ IsConcat(s)
    \/ \E i \in 2..(Len(s) - 1) :
          s[i] = "|" /\ IsConcat(SubSeq(s, 1, i - 1)) /\ IsAlt(SubSeq(s, i + 1, Len(s)))

----------------------------------------------------------------------------
\* The parser on its own: any input string, parse() called repeatedly.

NoHandle == [kind |-> "none"]

\* no Node under test but the parser's, no handle under test but the harness's
NoTree == tree = NoNode /\ reversed = <<>> /\ followed = NoStates
NoLoop == stage = "idle" /\ explored = {} /\ pending = {} /\ rev = NoHandle

\* tests/test_parser.py: the inputs of test_parse_success and test_parse_fail
PARSE_SUCCEEDS ==
    {<<"a">>,
     <<"(", "a", ")">>,
     <<"(", "(", "a", ")", ")">>,
     <<"a", "b">>,
     <<"a", "*">>,
     <<"a", "|", "b">>,
     <<"a", "a">>,
     <<"a", "*", "b">>,
     <<"b", "a", "|", "b">>,
     <<"b", "|", "a", "b">>,
     <<"b", "|", "a", "|", "b">>,
     <<"b", "|", "a", "*", "|", "b">>,
     <<"(", "(", "a", "b", ")", "c", ")">>,
     <<"(", "a", "(", "b", "c", ")", ")">>,
     <<"a", "|", "(", "b", "*", "c", ")", "|", "a">>,
     <<"a", "(", "b", "a", ")", "*", "b", "|", "a">>,
     <<"a", "(", "b", "a", "*", "b", ")", "*">>,
     <<"a", "|", "b", "*", "a">>,
     <<"a", "*", "b", "*">>,
     <<"a", "e", "|", "b", "f", "|", "c", "g", "|", "d", "h">>}

PARSE_FAILS ==
    {<<>>,
     <<"(">>,
     <<")">>,
     <<"*">>,
     <<"|">>,
     <<"*", "a">>,
     <<"|", "a">>,
     <<"(", ")">>,
     <<"a", "|", ")">>,
     <<"a", ")">>,
     <<"(", "a", "|">>,
     <<"(", "a">>,
     <<"a", "|", "*">>,
     <<"a", "(", "b", "c", ")", "*", ")", "*">>,
     <<"a", "|", "|", "b">>,
     <<"a", "*", "*">>,
     <<"a", "|", "(", ")">>,
     <<"(", "(", "(", "a", ")", ")", ")", ")">>,
     <<"(", "(", "(", "(", "a", ")", ")", ")">>}

InitParser ==
    /\ \E s \in StringsOf(Chars, MaxLen) \cup PARSE_SUCCEEDS \cup PARSE_FAILS : ParserInit(s)
    /\ word = <<>>
    /\ k = 0
    /\ automata = NoHandle
    /\ verdict = <<>>
    /\ counted = <<>>
    /\ result = "none"
    /\ NoTree
    /\ NoLoop

NextParser ==
    parse /\ UNCHANGED <<word, k, automata, verdict, counted, result, treeVars, loopVars>>

SpecParser == InitParser /\ [][NextParser]_vars

----------------------------------------------------------------------------
\* tests/test_automata.py: the ten engine configurations and the loop that
\* parses a pattern once and runs a word through every one of them.

ENGINES ==
    <<"Position", "PositionDeterminised", "PositionMinimized",
      "McNaughtonYamada", "McNaughtonYamadaMinimized",
      "Follow", "FollowDeterminised", "FollowMinimized",
      "MarkBefore", "MarkBeforeMinimized">>

make_automata(name, n) ==
    CASE name = "Position" -> nfa(PositionAutomata(n))
      [] name = "PositionDeterminised" -> subset_determinise(nfa(PositionAutomata(n)))
      [] name = "PositionMinimized" -> NFA_minimize("Position", n)
      [] name = "McNaughtonYamada" -> dfa(McNaughtonYamadaAutomata(n))
      [] name = "McNaughtonYamadaMinimized" -> DFA_minimize("McNaughtonYamada", n)
      [] name = "Follow" -> nfa(FollowAutomata(n))
      [] name = "FollowDeterminised" -> subset_determinise(nfa(FollowAutomata(n)))
      [] name = "FollowMinimized" -> NFA_minimize("Follow", n)
      [] name = "MarkBefore" -> dfa(MarkBeforeAutomata(n))
      [] name = "MarkBeforeMinimized" -> DFA_minimize("MarkBefore", n)

\* node = Parser(pattern).parse()
ParsePattern ==
    /\ calls = 0
    /\ parse
    /\ UNCHANGED <<word, k, automata, verdict, counted, result, treeVars, loopVars>>

\* what the loop body records of the handle it built
Tested(A) ==
    /\ automata' = A
    /\ verdict' = Append(verdict, accepts(A, word))
    /\ counted' = Append(counted, all_states(A))

\* the next entry of ENGINES: build the handle, ask it for accepts(word) and
\* for its states
RunEngine ==
    /\ _parsed # NoNode
    /\ k < Len(ENGINES)
    /\ Tested(make_automata(ENGINES[k + 1], _parsed))
    /\ k' = k + 1
    /\ UNCHANGED <<parserVars, word, result, treeVars, loopVars>>

\* the patterns handed to the engines: the derivable strings
Patterns == {s \in StringsOf(Chars, MaxPat) : IsAlt(s)}
Words == StringsOf(Letters, MaxWord)

Init ==
    /\ \E s \in Patterns : ParserInit(s)
    /\ word \in Words
    /\ k = 0
    /\ automata = NoHandle
    /\ verdict = <<>>
    /\ counted = <<>>
    /\ result = "none"
    /\ NoTree
    /\ NoLoop

Next == ParsePattern \/ RunEngine

Spec == Init /\ [][Next]_vars

----------------------------------------------------------------------------
\* Claims about the engines, checked under Spec.

EngineIndex(name) == CHOOSE i \in 1..Len(ENGINES) : ENGINES[i] = name
Ran(name) == EngineIndex(name) <= k
VerdictOf(name) == verdict[EngineIndex(name)]
CountOf(name) == Cardinality(counted[EngineIndex(name)])

Variants == {"Position", "Follow", "McNaughtonYamada", "MarkBefore"}
Minimized(name) == name \o "Minimized"

\* the regular language an AST denotes: Symbol is one character, Concat is
\* concatenation, Alt is union, Star is zero or more repetitions
RECURSIVE InLanguage(_, _)
InLanguage(n, w) ==
    CASE n.type = "Symbol" -> w = <<n.value>>
      [] n.type = "Concat" ->
            \E i \in 0..Len(w) :
                /\ InLanguage(n.left, SubSeq(w, 1, i))
                /\ InLanguage(n.right, SubSeq(w, i + 1, Len(w)))
      [] n.type = "Alt" -> InLanguage(n.left, w) \/ InLanguage(n.right, w)
      [] n.type = "Star" ->
            \/ w = <<>>
            \/ \E i \in 1..Len(w) :
                /\ InLanguage(n.child, SubSeq(w, 1, i))
                /\ InLanguage(n, SubSeq(w, i + 1, Len(w)))

\* C1: the four constructions built from one AST give one verdict on a word.
C1_EnginesAgree ==
    \A e1 \in Variants : \A e2 \in Variants :
        (Ran(e1) /\ Ran(e2)) => VerdictOf(e1) = VerdictOf(e2)

\* C1 witness: all four ran on a word of the language of a*b
C1_Witness ==
    /\ k = Len(ENGINES)
    /\ _tokens = <<"a", "*", "b">>
    /\ word = <<"a", "a", "b">>
    /\ \A e \in Variants : VerdictOf(e)

\* C2: each of the ten configurations accepts a word exactly when the word
\* is in the language the AST denotes.
C2_EnginesDecideLanguage ==
    \A i \in 1..k : verdict[i] = InLanguage(_parsed, word)

\* C2 witness: all ten ran, on a word outside the language of a|b*
C2_Witness ==
    /\ k = Len(ENGINES)
    /\ _tokens = <<"a", "|", "b", "*">>
    /\ word = <<"b", "a">>
    /\ \A i \in 1..k : ~verdict[i]

\* states of a determinised handle reachable from its initial state, the
\* dead state included
RECURSIVE ReachableFrom(_, _)
Grown(D, seen, more) == IF more \subseteq seen THEN seen ELSE ReachableFrom(D, seen \cup more)
ReachableFrom(D, seen) ==
    Grown(D, seen, {transition(D, s, a) : s \in seen, a \in D.symbols})

\* pairs of states no word tells apart: start from equal finality and drop a
\* pair once some symbol leads it to a pair already dropped
\* (the transitions out of the states are tabulated once, and each round's
\* pairs are bound to a value, so that nothing is computed twice)
Moves(D, S) == [s \in S |-> [a \in D.symbols |-> transition(D, s, a)]]

RECURSIVE Indistinguishable(_, _)
Refined(T, pairs, kept) == IF kept = pairs THEN pairs ELSE Indistinguishable(T, kept)
Kept(T, pairs) ==
    {pr \in pairs :
        \A a \in DOMAIN T[pr[1]] : <<T[pr[1]][a], T[pr[2]][a]>> \in pairs}
Indistinguishable(T, pairs) == UNION {Refined(T, pairs, kept) : kept \in {Kept(T, pairs)}}

SameFinality(D, all) == {pr \in all \X all : is_final(D, pr[1]) = is_final(D, pr[2])}
SameContinuations(D, S) ==
    UNION {Indistinguishable(T, P) : T \in {Moves(D, S \cup {{}})},
                                     P \in {SameFinality(D, S \cup {{}})}}

\* C3: a minimized handle accepts what its variant's own automaton accepts,
\* every counted state is reachable, and no two distinct counted states have
\* the same continuations (nor has any the dead state's).
C3_MinimizeIsMinimal ==
    /\ \A X \in Variants : Ran(Minimized(X)) => VerdictOf(Minimized(X)) = VerdictOf(X)
    /\ (k >= 1 /\ \E X \in Variants : ENGINES[k] = Minimized(X)) =>
          LET S == counted[k]
          IN  /\ S \subseteq ReachableFrom(automata, {initial(automata)})
              /\ \A pr \in SameContinuations(automata, S) : pr[1] = pr[2]

\* C3 witness: the Mark-Before minimization of ab|b just ran and counts
\* three states
C3_Witness ==
    /\ k = EngineIndex("MarkBeforeMinimized")
    /\ _tokens = <<"a", "b", "|", "b">>
    /\ Cardinality(counted[k]) = 3

\* C4: the minimized automata of the four variants count the same number of
\* states.
C4_MinimizedCountsAgree ==
    \A X \in Variants : \A Y \in Variants :
        (Ran(Minimized(X)) /\ Ran(Minimized(Y))) =>
            CountOf(Minimized(X)) = CountOf(Minimized(Y))

\* C4 witness: all four minimizations of a|b ran and count two states each
C4_Witness ==
    /\ k = Len(ENGINES)
    /\ _tokens = <<"a", "|", "b">>
    /\ \A X \in Variants : CountOf(Minimized(X)) = 2

----------------------------------------------------------------------------
\* automata/automata.py: the Position automaton behind match_re.

\* PositionAutomata.__init__ / from_node
from_node(node) ==
    [pos |-> pos(node), first |-> first(node),
     last_0 |-> last_0(node), follow |-> follow(node)]

\* PositionAutomata.transition
Position_transition(self, index, symbol) ==
    IF index = 0 THEN self.first
    ELSE {pr[2] : pr \in {q \in self.follow : q[1] = index /\ self.pos[q[2]] = symbol}}

\* the for loop of Automata.accepts over the rest of the word, then the verdict
RECURSIVE Automata_run(_, _, _)
Automata_run(self, current, w) ==
    IF w = <<>> THEN Cardinality(current \cap self.last_0) > 0
    ELSE IF Cardinality(current) = 0 THEN FALSE
    ELSE Automata_run(self,
                      UNION {Position_transition(self, s, Head(w)) : s \in current},
                      Tail(w))

\* Automata.accepts, from PositionAutomata.initial
Automata_accepts(self, w) == Automata_run(self, {0}, w)

\* match_re(pattern, string): Parser(pattern).parse(), from_node, accepts; a
\* SyntaxError of the parser propagates to the caller
match_re ==
    /\ result = "none"
    /\ calls = 0
    /\ parse
    /\ result' = IF ret'.kind = "error" THEN "SyntaxError"
                 ELSE IF Automata_accepts(from_node(ret'.node), word)
                 THEN "True" ELSE "False"
    /\ UNCHANGED <<word, k, automata, verdict, counted, treeVars, loopVars>>

InitMatch ==
    /\ \E s \in StringsOf(Chars, MaxLen) : ParserInit(s)
    /\ word \in Words
    /\ k = 0
    /\ automata = NoHandle
    /\ verdict = <<>>
    /\ counted = <<>>
    /\ result = "none"
    /\ NoTree
    /\ NoLoop

NextMatch == match_re

SpecMatch == InitMatch /\ [][NextMatch]_vars

----------------------------------------------------------------------------
\* Claims about match_re, checked under SpecMatch.

\* C5 (as stated): on a non-empty valid pattern match returns the verdict of
\* the Position automaton whose transition from state 0 on a symbol keeps the
\* positions of first carrying that symbol; it returns false when the first
\* character of the word is the symbol of no position in first.
C5_MatchFiltersFirstBySymbol ==
    (result # "none" /\ _tokens # <<>> /\ IsAlt(_tokens)) =>
        LET self == FromNode(_parsed)
        IN  /\ result = IF NFA_accepts(nfa(PositionAutomata(_parsed)), word)
                        THEN "True" ELSE "False"
            /\ (word # <<>> /\ select(self, self.first, word[1]) = {})
                  => result = "False"

\* C6 (as stated): on the empty pattern match returns (word == "") without
\* invoking the parser and without raising.
C6_EmptyPatternMatchesEmptyWord ==
    (result # "none" /\ _tokens = <<>>) =>
        /\ result = IF word = <<>> THEN "True" ELSE "False"
        /\ calls = 0

----------------------------------------------------------------------------
\* Claims about the parser, checked under SpecParser.

\* the literal (non-reserved) characters of a token string, in textual order
IsLiteral(c) == c \notin Reserved
LiteralsOf(t) == SelectSeq(t, IsLiteral)

\* a prefix is viable when some continuation makes it derivable; a viable
\* prefix can always be completed by at most one literal and closing parens
RECURSIVE Closers(_)
Closers(n) == IF n = 0 THEN <<>> ELSE <<")">> \o Closers(n - 1)
Viable(s) ==
    \E d \in 0..Len(s) : \E mid \in {<<>>, <<"a">>} : IsAlt(s \o mid \o Closers(d))

\* 0-based index of the first token no derivable string can have there, or
\* Len(t) when the input merely stops too early
OffendingIndex(t) ==
    LET badAt == {i \in 0..(Len(t) - 1) : ~Viable(SubSeq(t, 1, i + 1))}
    IN  IF badAt = {} THEN Len(t)
        ELSE CHOOSE i \in badAt : \A j \in badAt : i <= j

\* C7: the first parse() on a fresh Parser returns a node exactly when the
\* whole input is derivable from the grammar; otherwise it raises a parse
\* error, returns no node and caches none.
C7_ParseIffDerivable ==
    calls = 1 =>
        /\ (ret.kind = "node") <=> IsAlt(_tokens)
        /\ (ret.kind = "error") <=> ~IsAlt(_tokens)
        /\ ret.kind = "node" => ret.node # NoNode /\ _parsed = ret.node
        /\ ret.kind = "error" => ret.node = NoNode /\ _parsed = NoNode

\* C7 witness: a first call that raised on a ")" met with no group open,
\* after a complete expression
C7_Witness ==
    /\ calls = 1
    /\ ret.kind = "error"
    /\ ret.err.msg = "unexpected close paren"
    /\ _tokens = <<"(", "a", ")", ")">>

\* C8 (as stated): every parse failure carries the index of the offending
\* token and the token found there, or "empty string" when the input was
\* exhausted.
C8_ErrorCarriesOffendingToken ==
    (calls = 1 /\ ret.kind = "error") =>
        LET i == OffendingIndex(_tokens)
        IN  /\ ret.err.index = i
            /\ IF i < Len(_tokens)
               THEN ret.err.found \in {_tokens[i + 1], "'" \o _tokens[i + 1] \o "'"}
               ELSE ret.err.found = "empty string"

\* C9: once a node is cached, a later parse() returns that node and leaves
\* the cursor, the symbol counter and the open-paren counter alone.
C9_CachedParse ==
    [][(_parsed # NoNode) =>
          /\ ret'.kind = "node"
          /\ ret'.node = _parsed
          /\ _parsed' = _parsed
          /\ _pos' = _pos
          /\ _symbol_count' = _symbol_count
          /\ _paren_count' = _paren_count]_vars

\* C9 witness: a second call made after a successful first call
C9_Witness ==
    /\ calls = 2
    /\ ret.kind = "node"
    /\ _pos = Len(_tokens)
    /\ _tokens = <<"a", "|", "b", "*">>

\* C10: a pattern parsed successfully with N symbol occurrences yields a node
\* whose pos() has domain 1..N, the k-th occurrence in textual order holding
\* index k.
C10_PositionsAreTextualOrder ==
    (calls = 1 /\ ret.kind = "node") =>
        LET p == pos(ret.node)
            lits == LiteralsOf(_tokens)
        IN  /\ DOMAIN p = 1..Len(lits)
            /\ \A i \in 1..Len(lits) : p[i] = lits[i]

\* C10 witness: a grouped pattern with two symbol occurrences
C10_Witness ==
    /\ calls = 1
    /\ ret.kind = "node"
    /\ _tokens = <<"(", "a", ")", "b">>
    /\ DOMAIN pos(ret.node) = {1, 2}

----------------------------------------------------------------------------
\* tests/test_tree.py: Nodes built directly from the constructors, and the
\* attribute methods called on them.

\* most nodes in a Node under test
MaxNodes == 5
\* largest index given to a Symbol under test
MaxIndex == 3
\* reverse() calls chained on one Node
MaxReverse == 2

\* Concat(l, r) and Alt(l, r) over two sets of operands
Joined(L, R) == {Concat(l, r) : l \in L, r \in R} \cup {Alt(l, r) : l \in L, r \in R}

\* the Nodes of exactly n nodes
RECURSIVE TreesOf(_)
TreesOf(n) ==
    IF n = 1 THEN {Symbol(v, i) : v \in Letters, i \in 1..MaxIndex}
    ELSE {Star(c) : c \in TreesOf(n - 1)}
           \cup UNION {Joined(TreesOf(m), TreesOf(n - 1 - m)) : m \in 1..(n - 2)}

Trees(nodes) == UNION {TreesOf(n) : n \in 1..nodes}

\* node.reverse(), then .reverse() of the node that returned
reverse_call ==
    /\ followed = NoStates
    /\ Len(reversed) < MaxReverse
    /\ reversed' = Append(reversed,
                          reverse(IF reversed = <<>> THEN tree ELSE reversed[Len(reversed)]))
    /\ UNCHANGED <<tree, followed, parserVars, word, engineVars, result, loopVars>>

\* node.follow()
follow_call ==
    /\ followed = NoStates
    /\ reversed = <<>>
    /\ followed' = Some(follow(tree))
    /\ UNCHANGED <<tree, reversed, parserVars, word, engineVars, result, loopVars>>

InitTree ==
    /\ tree \in Trees(MaxNodes)
    /\ reversed = <<>>
    /\ followed = NoStates
    /\ ParserInit(<<>>)
    /\ word = <<>>
    /\ k = 0
    /\ automata = NoHandle
    /\ verdict = <<>>
    /\ counted = <<>>
    /\ result = "none"
    /\ NoLoop

NextTree == reverse_call \/ follow_call

SpecTree == InitTree /\ [][NextTree]_vars

----------------------------------------------------------------------------
\* Claims about the Node attributes, checked under SpecTree.

\* C11: for every Node n built from Symbol, Star, Concat and Alt,
\* n.reverse().reverse() equals n structurally.
C11_ReverseIsInvolution ==
    Len(reversed) >= 2 => reversed[2] = tree

\* C11 witness: a nested Node whose mirror differs from it, reversed twice
C11_Witness ==
    /\ Len(reversed) = 2
    /\ tree = Concat(Symbol("a", 1), Alt(Symbol("b", 2), Symbol("a", 3)))
    /\ reversed[1] = Concat(Alt(Symbol("a", 3), Symbol("b", 2)), Symbol("a", 1))
    /\ reversed[2] = tree

----------------------------------------------------------------------------
\* More claims about the parser, checked under SpecParser.

\* the tree a derivable token string denotes when star binds tighter than
\* concatenation, concatenation tighter than alternation, both group to the
\* right and a parenthesised group stands for the tree of its content; base
\* counts the literals to the left of s in the whole input

\* groups open after the first i tokens of s
Opens(s, i) ==
    Cardinality({j \in 1..i : s[j] = "("}) - Cardinality({j \in 1..i : s[j] = ")"})
\* the bars of s outside every group
Bars(s) == {i \in 1..Len(s) : s[i] = "|" /\ Opens(s, i) = 0}
Least(S) == CHOOSE i \in S : \A j \in S : i <= j
LiteralCount(s) == Len(LiteralsOf(s))
\* where the first atom of s ends, and the first starred item
AtomEnd(s) == IF s[1] = "(" THEN Least({i \in 1..Len(s) : Opens(s, i) = 0}) ELSE 1
ItemEnd(s) ==
    IF AtomEnd(s) < Len(s) /\ s[AtomEnd(s) + 1] = "*" THEN AtomEnd(s) + 1 ELSE AtomEnd(s)

RECURSIVE AltShape(_, _)
RECURSIVE ConcatShape(_, _)
RECURSIVE StarShape(_, _)
RECURSIVE AtomShape(_, _)

AltSplit(s, base, i) ==
    Alt(ConcatShape(SubSeq(s, 1, i - 1), base),
        AltShape(SubSeq(s, i + 1, Len(s)), base + LiteralCount(SubSeq(s, 1, i - 1))))
AltShape(s, base) ==
    IF Bars(s) = {} THEN ConcatShape(s, base) ELSE AltSplit(s, base, Least(Bars(s)))

ConcatSplit(s, base, i) ==
    Concat(StarShape(SubSeq(s, 1, i), base),
           ConcatShape(SubSeq(s, i + 1, Len(s)), base + LiteralCount(SubSeq(s, 1, i))))
ConcatShape(s, base) ==
    IF ItemEnd(s) = Len(s) THEN StarShape(s, base) ELSE ConcatSplit(s, base, ItemEnd(s))

StarShape(s, base) ==
    IF s[Len(s)] = "*" THEN Star(AtomShape(SubSeq(s, 1, Len(s) - 1), base))
    ELSE AtomShape(s, base)

AtomShape(s, base) ==
    IF s[1] = "(" THEN AltShape(SubSeq(s, 2, Len(s) - 1), base)
    ELSE Symbol(s[1], base + 1)

\* C12: the node of a successful parse is the tree the input denotes with
\* star above concatenation above alternation, both right-associative, and
\* groups adding no node; in particular "b|a|b" is Alt(b, Alt(a, b)), "abc"
\* is Concat(a, Concat(b, c)), "((a))" is Symbol a and "((ab)c)" is
\* Concat(Concat(a, b), c).
C12_PrecedenceAndAssociativity ==
    (calls = 1 /\ ret.kind = "node") =>
        /\ ret.node = AltShape(_tokens, 0)
        /\ _tokens = <<"b", "|", "a", "|", "b">> =>
              ret.node = Alt(Symbol("b", 1), Alt(Symbol("a", 2), Symbol("b", 3)))
        /\ _tokens = <<"a", "b", "a">> =>
              ret.node = Concat(Symbol("a", 1), Concat(Symbol("b", 2), Symbol("a", 3)))
        /\ _tokens = <<"(", "(", "a", ")", ")">> => ret.node = Symbol("a", 1)
        /\ _tokens = <<"(", "(", "a", "b", ")", "c", ")">> =>
              ret.node = Concat(Concat(Symbol("a", 1), Symbol("b", 2)), Symbol("c", 3))

\* C12 witness: the grouped input "((ab)c)" parsed to the left-nested Concat
\* its parentheses ask for
C12_Witness ==
    /\ calls = 1
    /\ _tokens = <<"(", "(", "a", "b", ")", "c", ")">>
    /\ ret.kind = "node"
    /\ ret.node = Concat(Concat(Symbol("a", 1), Symbol("b", 2)), Symbol("c", 3))

----------------------------------------------------------------------------
\* More claims about the engines, checked under Spec.

\* C13 (as stated): for the pattern "ab" the minimized Position automaton
\* counts two states.
C13_MinimizedAbCountsTwo ==
    (Ran("PositionMinimized") /\ _tokens = <<"a", "b">>) =>
        CountOf("PositionMinimized") = 2

\* C13 (amended): for the pattern "ab" the minimized Position automaton
\* counts three states: the initial state, the state after "a" and the
\* accepting state after "ab" (the dead state is not counted).
C13_MinimizedAbCountsThree ==
    (Ran("PositionMinimized") /\ _tokens = <<"a", "b">>) =>
        /\ CountOf("PositionMinimized") = 3
        /\ Cardinality({s \in counted[EngineIndex("PositionMinimized")] :
                            is_final(NFA_minimize("Position", _parsed), s)}) = 1

\* C13 witness: the minimized Position automaton of "ab" was built and
\* counted, and it accepts the word ab
C13_Witness ==
    /\ Ran("PositionMinimized")
    /\ _tokens = <<"a", "b">>
    /\ word = <<"a", "b">>
    /\ VerdictOf("PositionMinimized")

\* C14: for a valid pattern with N symbol occurrences the raw Position NFA
\* is built with the known states 1..N, all_states() returns exactly that
\* set (the initial state 0, which exploring would find, is not in it) and
\* count_states() is N; for "ab" it is 2.
C14_PositionStatesArePositions ==
    Ran("Position") =>
        LET N == Len(LiteralsOf(_tokens))
            handle == nfa(PositionAutomata(_parsed))
            listed == counted[EngineIndex("Position")]
        IN  /\ handle.states = Some(1..N)
            /\ k = 1 => automata = handle
            /\ listed = handle.states.val
            /\ listed = 1..N
            /\ Cardinality(listed) = N
            /\ _tokens = <<"a", "b">> => Cardinality(listed) = 2

\* C14 witness: the Position NFA of "ab" just ran and lists the states 1, 2
C14_Witness ==
    /\ k = 1
    /\ _tokens = <<"a", "b">>
    /\ automata.kind = "Position"
    /\ counted[1] = {1, 2}

----------------------------------------------------------------------------
\* More claims about the Node attributes, checked under SpecTree.

\* the number of Symbol leaves of a Node
RECURSIVE Leaves(_)
Leaves(n) ==
    CASE n.type = "Symbol" -> 1
      [] n.type = "Star"   -> Leaves(n.child)
      [] n.type = "Concat" -> Leaves(n.left) + Leaves(n.right)
      [] n.type = "Alt"    -> Leaves(n.left) + Leaves(n.right)

\* no index is carried by two leaves
DistinctIndices(n) == Cardinality(DOMAIN pos(n)) = Leaves(n)

\* the position-marked language of a Node: its words with every letter
\* replaced by the index of the Symbol that matches it; here the words of at
\* most L positions
Products(U, V, L) == {w \in {u \o v : u \in U, v \in V} : Len(w) <= L}

RECURSIVE StarWords(_, _)
StarWords(U, L) ==
    IF L = 0 THEN {<<>>} ELSE {<<>>} \cup Products(U, StarWords(U, L - 1), L)

RECURSIVE MarkedWords(_, _)
MarkedWords(n, L) ==
    CASE n.type = "Symbol" -> IF L >= 1 THEN {<<n.index>>} ELSE {}
      [] n.type = "Alt"    -> MarkedWords(n.left, L) \cup MarkedWords(n.right, L)
      [] n.type = "Concat" -> Products(MarkedWords(n.left, L), MarkedWords(n.right, L), L)
      [] n.type = "Star"   -> StarWords(MarkedWords(n.child, L) \ {<<>>}, L)

\* the pairs of positions that stand next to each other in a word
AdjacentIn(w) == {<<w[p], w[p + 1]>> : p \in 1..(Len(w) - 1)}
Adjacent(n, L) == UNION {AdjacentIn(w) : w \in MarkedWords(n, L)}

\* a pair adjacent in some word is adjacent in one that visits no position
\* twice before the pair nor twice after it
WordBound(n) == 2 * Leaves(n)

\* C15: for a Node with distinct symbol indices, follow() is exactly the set
\* of pairs (i, j) with j right after i in some word of the position-marked
\* language; both members of every pair are positions of pos(), and 0 is
\* never one.
C15_FollowIsAdjacency ==
    (followed.some /\ DistinctIndices(tree)) =>
        /\ followed.val = Adjacent(tree, WordBound(tree))
        /\ \A pr \in followed.val :
              /\ pr[1] \in DOMAIN pos(tree)
              /\ pr[2] \in DOMAIN pos(tree)
              /\ pr[1] # 0
              /\ pr[2] # 0

\* C15 witness: follow() of the Node of a*b, where position 1 follows itself
\* and position 2 follows position 1
C15_Witness ==
    /\ followed.some
    /\ tree = Concat(Star(Symbol("a", 1)), Symbol("b", 2))
    /\ followed.val = {<<1, 1>>, <<1, 2>>}

----------------------------------------------------------------------------
\* One handle at a time: a pattern is parsed, one ENGINES entry builds its
\* handle, and then either all_states() runs on it, one round of its while
\* loop per step, or (on a DFA) reverse() is called and the reversed NFA is
\* asked for a word.

\* word[::-1]
Rev(w) == [i \in 1..Len(w) |-> w[Len(w) + 1 - i]]

\* ENGINES[name](node)
Build(name) ==
    /\ _parsed # NoNode
    /\ stage = "idle"
    /\ automata' = make_automata(name, _parsed)
    /\ stage' = "built"
    /\ UNCHANGED <<parserVars, word, k, verdict, counted, result, treeVars,
                   explored, pending, rev>>

build == \E i \in 1..Len(ENGINES) : Build(ENGINES[i])

\* states = {self.initial()} of a DFA, states = set(self.initial()) of an NFA
StartStates(A) == IF A.shape = "NFA" THEN initial(A) ELSE {initial(A)}

\* new_states of one round of either all_states
new_states(A, found, to_check) ==
    IF A.shape = "NFA" THEN NFA_new_states(A, found, to_check)
    ELSE DFA_new_states(A, found, to_check)

\* all_states up to the while loop: the known states are returned at once,
\* otherwise states and to_check start from the initial state
all_states_enter ==
    /\ stage = "built"
    /\ IF automata.states.some
       THEN /\ counted' = <<automata.states.val>>
            /\ stage' = "done"
            /\ UNCHANGED <<explored, pending>>
       ELSE /\ explored' = StartStates(automata)
            /\ pending' = StartStates(automata)
            /\ stage' = "loop"
            /\ UNCHANGED counted
    /\ UNCHANGED <<parserVars, word, k, automata, verdict, result, treeVars, rev>>

\* one pass of the while loop: states |= new_states; to_check = new_states
Round(new) ==
    /\ explored' = explored \cup new
    /\ pending' = new

all_states_round ==
    /\ stage = "loop"
    /\ Cardinality(pending) # 0
    /\ Round(new_states(automata, explored, pending))
    /\ UNCHANGED <<parserVars, word, engineVars, result, treeVars, stage, rev>>

\* the while condition fails: return states
all_states_return ==
    /\ stage = "loop"
    /\ Cardinality(pending) = 0
    /\ counted' = <<explored>>
    /\ stage' = "done"
    /\ UNCHANGED <<parserVars, word, k, automata, verdict, result, treeVars,
                   explored, pending, rev>>

\* what the caller of reverse() records: the reversed NFA, the DFA's verdict
\* on the word read backwards and the reversed NFA's verdict on the word
Reversed(D, R, w) ==
    /\ rev' = R
    /\ word' = w
    /\ verdict' = <<DFA_accepts(D, Rev(w)), NFA_accepts(R, w)>>

\* dfa.reverse(), then accepts(w) on the NFA that returned
dfa_reverse_call ==
    /\ stage = "built"
    /\ automata.shape = "DFA"
    /\ \E w \in Words : Reversed(automata, DFA_reverse(automata), w)
    /\ stage' = "reversed"
    /\ UNCHANGED <<parserVars, k, automata, counted, result, treeVars, explored, pending>>

InitHandle ==
    /\ \E s \in Patterns : ParserInit(s)
    /\ word = <<>>
    /\ k = 0
    /\ automata = NoHandle
    /\ verdict = <<>>
    /\ counted = <<>>
    /\ result = "none"
    /\ NoTree
    /\ NoLoop

NextHandle ==
    \/ ParsePattern
    \/ build
    \/ all_states_enter
    \/ all_states_round
    \/ all_states_return
    \/ dfa_reverse_call

SpecHandle == InitHandle /\ [][NextHandle]_vars

\* the while loop of all_states keeps running until its condition fails
FairSpecHandle ==
    SpecHandle /\ WF_vars(all_states_round) /\ WF_vars(all_states_return)

----------------------------------------------------------------------------
\* Claims about all_states and reverse, checked under SpecHandle and, for
\* termination, under FairSpecHandle.

\* a DFA state the search keeps: any but the empty state that is not final
Live(D, s) == StateLen(D, s) # 0 \/ is_final(D, s)

\* the handle under test is a DFA built without known states
Searches == automata.shape = "DFA" /\ ~automata.states.some

\* C16: on a DFA without known states all_states() terminates, a round that
\* finds nothing new being the last; every round adds only states that were
\* not discovered before and that are not the dead state; and the set it
\* returns is the initial state plus every state reachable from it that is
\* non-empty or final.
C16_AllStatesTerminatesWithReachable ==
    /\ (stage = "loop") ~> (stage = "done")
    /\ [][(stage = "loop" /\ stage' = "loop") =>
             /\ pending # {}
             /\ pending' = explored' \ explored
             /\ \A s \in pending' : Live(automata, s)]_vars
    /\ [][(stage = "loop" /\ pending = {}) => (stage' = "done" /\ counted' = <<explored>>)]_vars
    /\ []((stage = "done" /\ Searches) =>
             /\ initial(automata) \in counted[1]
             /\ counted[1] = {initial(automata)} \cup
                   {s \in ReachableFrom(automata, {initial(automata)}) : Live(automata, s)}
             /\ counted[1] = DFA_all_states(automata))

\* C16 witness: the search over the Mark-Before DFA of "a" ended, having
\* kept the empty state reached on a because it is final
C16_Witness ==
    /\ stage = "done"
    /\ _tokens = <<"a">>
    /\ automata.kind = "MarkBefore"
    /\ counted[1] = {FollowState({1}, FALSE), FollowState({}, TRUE)}

\* C17: for every DFA handle D of ENGINES and every word w, the NFA that
\* D.reverse() returns starts from the final states of D.all_states(), is
\* final exactly at D's initial state, steps from s on a to the states p of
\* D.all_states() with D.transition(p, a) = s, and accepts w exactly when D
\* accepts w read backwards.
C17_ReverseAcceptsReversedWords ==
    stage = "reversed" =>
        LET D == automata
            all == all_states(automata)
        IN  /\ verdict[2] = verdict[1]
            /\ verdict[2] = NFA_accepts(rev, word)
            /\ verdict[1] = DFA_accepts(D, Rev(word))
            /\ initial(rev) = {s \in all : is_final(D, s)}
            /\ \A s \in all : is_final(rev, s) <=> (s = initial(D))
            /\ \A s \in all : \A a \in D.symbols :
                  transition(rev, s, a) = {p \in all : transition(D, p, a) = s}

\* C17 witness: the McNaughton-Yamada DFA of a*b accepts aab, and its
\* reversal accepts baa
C17_Witness ==
    /\ stage = "reversed"
    /\ _tokens = <<"a", "*", "b">>
    /\ automata.kind = "McNaughtonYamada"
    /\ word = <<"b", "a", "a">>
    /\ verdict = <<TRUE, TRUE>>

\* the states a step from s on a can lead a run of accepts to: the members
\* of an NFA's transition set, the state of a DFA's transition unless dead
Successors(A, s, a) ==
    IF A.shape = "NFA" THEN transition(A, s, a)
    ELSE {t \in {transition(A, s, a)} : Live(A, t)}

\* C19 (as stated): for every engine handle all_states() contains every
\* initial state and, with a listed state s and a symbol a, every non-dead
\* state of transition(s, a).
C19_AllStatesHoldsInitialAndSuccessors ==
    stage = "done" =>
        /\ StartStates(automata) \subseteq counted[1]
        /\ \A s \in counted[1] : \A a \in automata.symbols :
              Successors(automata, s, a) \subseteq counted[1]

----------------------------------------------------------------------------
\* A claim about repeated parse() calls, checked under SpecParser.

\* C18 (as stated): once a parse() call has raised, every later parse() call
\* on the instance raises too.
C18_ErrorIsSticky ==
    [][(ret.kind = "error") => (ret'.kind = "error")]_vars

====
